---- MODULE Spec2Model ----
(***************************************************************************)
(* The OAuth2 router of fastapi-users (fastapi_users/router/oauth.py):     *)
(* the authorize handler, the callback handler and the state-token codec   *)
(* they use, as a state machine over concurrent requests.                  *)
(***************************************************************************)
EXTENDS Integers, Sequences, FiniteSets, TLC

VARIABLES
    initial_redirect_url,     \* get_oauth_router parameter (None when absent)
    initial_follow_redirect,  \* get_oauth_router parameter
    now,                      \* the clock the JWT library reads
    issued,                   \* the state tokens authorize has minted so far
    accepted,                 \* history: state strings a callback has accepted
    reqs,                     \* the requests in flight, one per slot
    codec                     \* the codec exercised on its own (SpecCodec)

vars == <<initial_redirect_url, initial_follow_redirect, now, issued, accepted, reqs, codec>>

(***************************************************************************)
(* Bounds of the model.                                                    *)
(***************************************************************************)
MaxTime == 3
MaxIssued == 1

Reqs == {"r1", "r2"}

(***************************************************************************)
(* Values.                                                                 *)
(***************************************************************************)
None == "None"

\* fastapi_users.settings, imported at oauth.py:15.  The lifetime is counted
\* in ticks of the model's clock.
STATE_TOKEN_AUDIENCE == "fastapi-users:oauth-state"
TOKEN_LIFETIME == 2

\* Another audience the same service signs tokens for with generate_jwt.
OTHER_AUDIENCE == "fastapi-users:verify"

state_secret == "SECRET"
ATTACKER_SECRET == "ATTACKER"

\* status.HTTP_400_BAD_REQUEST, ErrorCode.LOGIN_BAD_CREDENTIALS
HTTP_400_BAD_REQUEST == 400
LOGIN_BAD_CREDENTIALS == "LOGIN_BAD_CREDENTIALS"

\* f"oauth:{oauth_client.name}.{backend.name}.callback"
oauth_client_name == "github"
backend_name == "jwt"
callback_route_name == "oauth:" \o oauth_client_name \o "." \o backend_name \o ".callback"

(***************************************************************************)
(* Dicts are functions from a finite set of keys.                          *)
(***************************************************************************)
EmptyDict == [k \in {} |-> None]

DictSet(d, key, value) == [k \in (DOMAIN d) \cup {key} |-> IF k = key THEN value ELSE d[k]]

DictGet(d, key) == IF key \in DOMAIN d THEN d[key] ELSE None

(***************************************************************************)
(* The JWT codec (fastapi_users/jwt.py over PyJWT).  A token is the        *)
(* serialised claims plus a signature over them; the signature is          *)
(* abstracted as the pair of the key and the signed text.                  *)
(***************************************************************************)
KeyOrder == <<"aud", "foo", "sub">>

NoExp == -1

\* json.dumps of the claims: the (key, value) pairs in a fixed key order.
Serialize(fields) ==
    LET ks == SelectSeq(KeyOrder, LAMBDA k : k \in DOMAIN fields)
    IN  [i \in 1..Len(ks) |-> <<ks[i], fields[ks[i]]>>]

\* json.loads of the claims.
Parse(text) ==
    [k \in {text[i][1] : i \in 1..Len(text)} |->
        text[CHOOSE i \in 1..Len(text) : text[i][1] = k][2]]

Sign(text, exp, key) == [key |-> key, text |-> text, exp |-> exp]

\* jwt.encode(payload, secret)
jwt_encode(fields, exp, key) ==
    [wellformed |-> TRUE,
     text       |-> Serialize(fields),
     exp        |-> exp,
     sig        |-> Sign(Serialize(fields), exp, key)]

\* generate_jwt(data, secret, lifetime_seconds): copies data, adds exp, signs.
generate_jwt(data, secret, lifetime_seconds, t) ==
    jwt_encode(data, t + lifetime_seconds, secret)

\* Mutant: an aud the caller supplied is kept.
generate_state_token_keep_caller_aud(data, secret, lifetime_seconds, t) ==
    LET written == IF "aud" \in DOMAIN data THEN data
                   ELSE DictSet(data, "aud", STATE_TOKEN_AUDIENCE)
    IN  [token |-> generate_jwt(written, secret, lifetime_seconds, t),
         data  |-> written]

\* Mutant: the aud claim is not written.
generate_state_token_no_aud(data, secret, lifetime_seconds, t) ==
    [token |-> generate_jwt(data, secret, lifetime_seconds, t), data |-> data]

\* generate_state_token(data, secret, lifetime_seconds): writes aud into the
\* caller's mapping, then signs it.  Returns the token and the mapping as the
\* caller sees it afterwards.
generate_state_token(data, secret, lifetime_seconds, t) ==
    LET written == DictSet(data, "aud", STATE_TOKEN_AUDIENCE)
    IN  [token |-> generate_jwt(written, secret, lifetime_seconds, t),
         data  |-> written]

\* A string that is no JWT at all.
Garbage ==
    [wellformed |-> FALSE, text |-> <<>>, exp |-> NoExp,
     sig |-> Sign(<<>>, NoExp, None)]

\* A valid token whose claims were edited without the key: the expiry is
\* pushed out, the signature segment is the old one.
Tamper(tok) == [tok EXCEPT !.exp = MaxTime + TOKEN_LIFETIME + 1]

\* decode_jwt(encoded_jwt, secret, audience): jwt.decode's checks in its
\* order.  `edge` is the library's verdict at the very instant of expiry.
\* Returns [exc, payload]: exc is "ok" or the name of the PyJWT exception.
decode_jwt(encoded_jwt, secret, audience, t, edge) ==
    LET fields == Parse(encoded_jwt.text)
        fail(e) == [exc |-> e, fields |-> EmptyDict, exp |-> NoExp]
    IN  IF ~encoded_jwt.wellformed
            THEN fail("DecodeError")
        ELSE IF encoded_jwt.sig # Sign(encoded_jwt.text, encoded_jwt.exp, secret)
            THEN fail("InvalidSignatureError")
        ELSE IF encoded_jwt.exp # NoExp
                /\ (encoded_jwt.exp < t \/ (encoded_jwt.exp = t /\ edge))
            THEN fail("ExpiredSignatureError")
        ELSE IF "aud" \notin DOMAIN fields
            THEN fail("MissingRequiredClaimError")
        ELSE IF fields["aud"] \notin audience
            THEN fail("InvalidAudienceError")
        ELSE [exc |-> "ok", fields |-> fields, exp |-> encoded_jwt.exp]

\* `except jwt.DecodeError`: the classes that clause catches.  In PyJWT
\* InvalidSignatureError derives from DecodeError; ExpiredSignatureError,
\* InvalidAudienceError and MissingRequiredClaimError derive from
\* InvalidTokenError only.
IsDecodeError(exc) == exc \in {"DecodeError", "InvalidSignatureError"}

(***************************************************************************)
(* The collaborators' values.                                              *)
(***************************************************************************)
\* What the callback adapter hands over: OAuth2Token dicts.
ProviderTokens ==
    { ("access_token" :> "at1" @@ "expires_at" :> "1700000000" @@ "refresh_token" :> "rt1"),
      ("access_token" :> "at2") }

\* oauth_client.get_id_email(access_token), when it does not raise.
get_id_email(access_token) ==
    IF access_token = "at1" THEN <<"id1", "one@example.com">>
                            ELSE <<"id2", "two@example.com">>

NoAccount ==
    [oauth_name |-> None, access_token |-> None, expires_at |-> None,
     refresh_token |-> None, account_id |-> None, account_email |-> None]

\* Mutant: the provider token is kept in a slot the requests share, so a
\* record may be built from the token of another request in flight.
BaseOAuthAccount_shared(token, account_id, account_email) ==
    LET slot == IF reqs["r1"].kind = "callback" THEN reqs["r1"].token ELSE token
    IN  [oauth_name    |-> oauth_client_name,
         access_token  |-> slot["access_token"],
         expires_at    |-> DictGet(slot, "expires_at"),
         refresh_token |-> DictGet(slot, "refresh_token"),
         account_id    |-> account_id,
         account_email |-> account_email]

\* models.BaseOAuthAccount(...) as the callback builds it.
BaseOAuthAccount(token, account_id, account_email) ==
    [oauth_name    |-> oauth_client_name,
     access_token  |-> token["access_token"],
     expires_at    |-> DictGet(token, "expires_at"),
     refresh_token |-> DictGet(token, "refresh_token"),
     account_id    |-> account_id,
     account_email |-> account_email]

NoUser == [id |-> None, is_active |-> FALSE]

\* The users user_manager.oauth_callback may return.
Users == { [id |-> "u1", is_active |-> TRUE], [id |-> "u2", is_active |-> FALSE] }

NoToken ==
    [wellformed |-> FALSE, text |-> <<>>, exp |-> NoExp,
     sig |-> Sign(<<>>, NoExp, "unset")]

NoCall == [redirect_uri |-> None, state |-> NoToken, scope |-> <<>>,
           extras_params |-> EmptyDict]

NoUrl == [endpoint |-> None, params |-> NoCall]

\* oauth_client.get_authorization_url(redirect_uri, state, scope, extras_params),
\* when it does not raise: the provider's endpoint with these parameters.
get_authorization_url(call) == [endpoint |-> "https://provider/authorize", params |-> call]

\* request.url_for(name): the route's URL under the request's base URL.
url_for(base_url, name) == base_url \o "/" \o name

(***************************************************************************)
(* What a request ends with.                                               *)
(***************************************************************************)
NoOutcome ==
    [kind |-> "none", status_code |-> 0, detail |-> None, user |-> NoUser, url |-> NoUrl]

HTTPException(status_code, detail) ==
    [NoOutcome EXCEPT !.kind = "HTTPException", !.status_code = status_code, !.detail = detail]

\* An exception the handler does not catch; detail is its class.
Raised(exc) == [NoOutcome EXCEPT !.kind = "exception", !.detail = exc]

\* What backend.login(strategy, user, response) returns.
LoginResponse(user) == [NoOutcome EXCEPT !.kind = "login_response", !.user = user]

RedirectResponse(url) == [NoOutcome EXCEPT !.kind = "RedirectResponse", !.url = url]

OAuth2AuthorizeResponse(url) ==
    [NoOutcome EXCEPT !.kind = "OAuth2AuthorizeResponse", !.url = url]

(***************************************************************************)
(* A request: its handler, its position, its parameters and locals, and    *)
(* the calls it has made to its collaborators.                             *)
(***************************************************************************)
Idle ==
    [kind |-> "idle", pc |-> "idle",
     \* authorize: parameters
     base_url |-> None, redirect_url |-> None, follow_redirect |-> FALSE,
     scopes |-> <<>>, code_challenge |-> None, code_challenge_method |-> None,
     \* authorize: locals
     authorize_redirect_url |-> None, state_data |-> EmptyDict,
     call |-> NoCall, authorization_url |-> NoUrl,
     \* callback: parameters and locals
     token |-> EmptyDict, state |-> NoToken,
     new_oauth_account |-> NoAccount, user |-> NoUser,
     \* history
     calls |-> <<>>, verify |-> "none", verified_at |-> -1, replay |-> FALSE,
     resolver_arg |-> NoAccount, login_arg |-> NoUser, raised_by |-> None,
     exchange_redirect_url |-> None,
     outcome |-> NoOutcome]

(***************************************************************************)
(* authorize (oauth.py:57-86)                                              *)
(***************************************************************************)
\* Mutant: the configured URL wins over the request's.
authorize_redirect_url_config_first(redirect_url, initial, base_url) ==
    IF initial # None THEN initial
    ELSE IF redirect_url # None THEN redirect_url
    ELSE url_for(base_url, callback_route_name)

\* Lines 65-70: the redirect target handed to the provider.
authorize_redirect_url(redirect_url, initial, base_url) ==
    IF redirect_url # None THEN redirect_url
    ELSE IF initial # None THEN initial
    ELSE url_for(base_url, callback_route_name)

\* Lines 78-81: the extras handed to the provider.
extras_params(code_challenge, code_challenge_method) ==
    ("code_challenge" :> code_challenge @@ "code_challenge_method" :> code_challenge_method)

\* Mutant: only the request's flag is read.
authorize_response_flag_only(follow_redirect, initial_follow, authorization_url) ==
    IF follow_redirect
        THEN RedirectResponse(authorization_url)
        ELSE OAuth2AuthorizeResponse(authorization_url)

\* Lines 84-86: the response shape.
authorize_response(follow_redirect, initial_follow, authorization_url) ==
    IF follow_redirect \/ initial_follow
        THEN RedirectResponse(authorization_url)
        ELSE OAuth2AuthorizeResponse(authorization_url)

BaseUrls == {"http://host-a", "http://host-b"}
RedirectUrls == {None, "https://app.example/r1"}
InitialRedirectUrls == {None, "https://app.example/r2"}
ScopeLists == {<<>>, <<"email">>}
CodeChallenges == {None, "challenge"}
CodeChallengeMethods == {None, "S256"}

\* Lines 65-82, up to the await of get_authorization_url.
AuthorizeBegin(r, base_url, redirect_url, follow_redirect, scopes, code_challenge, code_challenge_method) ==
    LET target == authorize_redirect_url(redirect_url, initial_redirect_url, base_url)
        minted == generate_state_token(EmptyDict, state_secret, TOKEN_LIFETIME, now)
        call   == [redirect_uri  |-> target,
                   state         |-> minted.token,
                   scope         |-> scopes,
                   extras_params |-> extras_params(code_challenge, code_challenge_method)]
    IN  /\ reqs[r].kind = "idle"
        /\ minted.token \in issued \/ Cardinality(issued) < MaxIssued
        /\ issued' = issued \cup {minted.token}
        /\ reqs' = [reqs EXCEPT ![r] =
              [Idle EXCEPT !.kind = "authorize", !.pc = "get_authorization_url",
                           !.base_url = base_url, !.redirect_url = redirect_url,
                           !.follow_redirect = follow_redirect, !.scopes = scopes,
                           !.code_challenge = code_challenge,
                           !.code_challenge_method = code_challenge_method,
                           !.authorize_redirect_url = target,
                           !.state_data = minted.data, !.state = minted.token,
                           !.call = call,
                           !.calls = <<"get_authorization_url">>]]
        /\ UNCHANGED <<initial_redirect_url, initial_follow_redirect, now, accepted, codec>>

\* Lines 74-86: the provider client returns the URL; the handler responds.
GetAuthorizationUrlReturn(r) ==
    LET q   == reqs[r]
        url == get_authorization_url(q.call)
    IN  /\ q.kind = "authorize" /\ q.pc = "get_authorization_url"
        /\ reqs' = [reqs EXCEPT ![r] =
              [q EXCEPT !.pc = "done", !.authorization_url = url,
                        !.outcome = authorize_response(q.follow_redirect,
                                                       initial_follow_redirect, url)]]
        /\ UNCHANGED <<initial_redirect_url, initial_follow_redirect, now, issued,
                       accepted, codec>>

\* The provider client raises; nothing in authorize catches it.
GetAuthorizationUrlRaise(r) ==
    LET q == reqs[r]
    IN  /\ q.kind = "authorize" /\ q.pc = "get_authorization_url"
        /\ reqs' = [reqs EXCEPT ![r] =
              [q EXCEPT !.pc = "done", !.raised_by = "get_authorization_url",
                        !.outcome = Raised("ProviderError")]]
        /\ UNCHANGED <<initial_redirect_url, initial_follow_redirect, now, issued,
                       accepted, codec>>

(***************************************************************************)
(* callback (oauth.py:112-149)                                             *)
(***************************************************************************)
\* A token signed with a key that is not the service's.
Forged ==
    generate_jwt(("aud" :> STATE_TOKEN_AUDIENCE), ATTACKER_SECRET, TOKEN_LIFETIME, MaxTime)

\* The payloads other parts of the service sign with the same secret: a
\* token for another audience, and one with no audience.
OtherPayloads == { ("aud" :> OTHER_AUDIENCE), EmptyDict }

\* Signed at startup with a lifetime that outlasts the model's clock.
OtherTokens == { generate_jwt(data, state_secret, MaxTime + 1, 0) : data \in OtherPayloads }

\* The state strings a client can present: what authorize has minted, the
\* same with edited claims, what the service signs for other purposes, a
\* token signed with another key, and junk.
StateInputs ==
    issued \cup {Tamper(t) : t \in issued} \cup OtherTokens \cup {Forged, Garbage}

\* Mutant: the result of decode_jwt is not acted on.
callback_verify_unchecked(state, t, edge) ==
    [exc |-> decode_jwt(state, state_secret, {STATE_TOKEN_AUDIENCE}, t, edge).exc,
     out |-> NoOutcome]

\* Mutant: a state string is refused once a callback has accepted it.
callback_verify_single_use(state, t, edge) ==
    LET decoded == decode_jwt(state, state_secret, {STATE_TOKEN_AUDIENCE}, t, edge)
    IN  IF state \in accepted
            THEN [exc |-> "DecodeError", out |-> HTTPException(HTTP_400_BAD_REQUEST, None)]
            ELSE [exc |-> decoded.exc,
                  out |-> IF decoded.exc = "ok" THEN NoOutcome
                          ELSE IF IsDecodeError(decoded.exc)
                              THEN HTTPException(HTTP_400_BAD_REQUEST, None)
                          ELSE Raised(decoded.exc)]

\* Mutant: the token is decoded against every audience the service signs for.
callback_verify_any_audience(state, t, edge) ==
    LET decoded == decode_jwt(state, state_secret,
                              {STATE_TOKEN_AUDIENCE, OTHER_AUDIENCE}, t, edge)
    IN  [exc |-> decoded.exc,
         out |-> IF decoded.exc = "ok" THEN NoOutcome
                 ELSE IF IsDecodeError(decoded.exc)
                     THEN HTTPException(HTTP_400_BAD_REQUEST, None)
                 ELSE Raised(decoded.exc)]

\* Lines 126-129: decode_jwt against the state-token audience inside
\* try/except jwt.DecodeError.  exc is what decode_jwt raised ("ok" when
\* nothing); out is what the request ends with, NoOutcome when the handler
\* goes on.
callback_verify(state, t, edge) ==
    LET decoded == decode_jwt(state, state_secret, {STATE_TOKEN_AUDIENCE}, t, edge)
    IN  [exc |-> decoded.exc,
         out |-> IF decoded.exc = "ok" THEN NoOutcome
                 ELSE IF IsDecodeError(decoded.exc)
                     THEN HTTPException(HTTP_400_BAD_REQUEST, None)
                 ELSE Raised(decoded.exc)]

\* Mutant: the inactive account is refused with another status.
callback_gate_forbidden(user) ==
    IF ~user.is_active
        THEN [NoOutcome EXCEPT !.kind = "HTTPException", !.status_code = 403,
                               !.detail = LOGIN_BAD_CREDENTIALS]
        ELSE NoOutcome

\* Mutant: no gate.
callback_gate_absent(user) == NoOutcome

\* Mutant: the test is inverted.
callback_gate_inverted(user) ==
    IF user.is_active
        THEN HTTPException(HTTP_400_BAD_REQUEST, LOGIN_BAD_CREDENTIALS)
        ELSE NoOutcome

\* Lines 142-146: the is_active gate; NoOutcome when the handler goes on.
callback_gate(user) ==
    IF ~user.is_active
        THEN HTTPException(HTTP_400_BAD_REQUEST, LOGIN_BAD_CREDENTIALS)
        ELSE NoOutcome

\* Mutant: the adapter is always built from the route name.
oauth2_authorize_callback_route_only(initial) ==
    [redirect_url |-> None, route_name |-> callback_route_name]

\* Lines 41-50: the callback adapter, built once from the configuration with
\* the configured URL when there is one, else with the callback route's name.
oauth2_authorize_callback(initial) ==
    IF initial # None
        THEN [redirect_url |-> initial, route_name |-> None]
        ELSE [redirect_url |-> None, route_name |-> callback_route_name]

\* Lines 115-117: the adapter runs as the callback's dependency; the redirect
\* URL it exchanges the code with is its fixed URL, or its route's URL under
\* the callback request.
adapter_redirect_url(adapter, base_url) ==
    IF adapter.redirect_url # None THEN adapter.redirect_url
    ELSE url_for(base_url, adapter.route_name)

\* Mutant: the state is verified before the identity lookup, and a request
\* whose state fails ends without the lookup.
CallbackBegin_verify_first(r, base_url, token, state) ==
    LET verified == callback_verify(state, now, TRUE)
        begun    == [Idle EXCEPT !.kind = "callback", !.base_url = base_url,
                                 !.exchange_redirect_url =
                                    adapter_redirect_url(
                                        oauth2_authorize_callback(initial_redirect_url),
                                        base_url),
                                 !.token = token, !.state = state]
    IN  /\ reqs[r].kind = "idle"
        /\ reqs' = [reqs EXCEPT ![r] =
              IF verified.out = NoOutcome
                  THEN [begun EXCEPT !.pc = "get_id_email",
                                     !.calls = <<"get_id_email">>]
                  ELSE [begun EXCEPT !.pc = "done", !.verify = verified.exc,
                                     !.verified_at = now,
                                     !.outcome = verified.out]]
        /\ UNCHANGED <<initial_redirect_url, initial_follow_redirect, now, issued,
                       accepted, codec>>

\* Lines 121-124: the adapter's (token, state) arrive; get_id_email is awaited.
CallbackBegin(r, base_url, token, state) ==
    /\ reqs[r].kind = "idle"
    /\ reqs' = [reqs EXCEPT ![r] =
          [Idle EXCEPT !.kind = "callback", !.pc = "get_id_email",
                       !.base_url = base_url,
                       !.exchange_redirect_url =
                            adapter_redirect_url(
                                oauth2_authorize_callback(initial_redirect_url), base_url),
                       !.token = token, !.state = state,
                       !.calls = <<"get_id_email">>]]
    /\ UNCHANGED <<initial_redirect_url, initial_follow_redirect, now, issued,
                   accepted, codec>>

\* get_id_email raises; nothing in callback catches it.
GetIdEmailRaise(r) ==
    LET q == reqs[r]
    IN  /\ q.kind = "callback" /\ q.pc = "get_id_email"
        /\ reqs' = [reqs EXCEPT ![r] =
              [q EXCEPT !.pc = "done", !.raised_by = "get_id_email",
                        !.outcome = Raised("ProviderError")]]
        /\ UNCHANGED <<initial_redirect_url, initial_follow_redirect, now, issued,
                       accepted, codec>>

\* Lines 122-140: get_id_email returns, the state is decoded, and on success
\* the account record is built and user_manager.oauth_callback is awaited.
GetIdEmailReturn(r, edge) ==
    LET q        == reqs[r]
        id_email == get_id_email(q.token["access_token"])
        verified == callback_verify(q.state, now, edge)
        account  == BaseOAuthAccount(q.token, id_email[1], id_email[2])
    IN  /\ q.kind = "callback" /\ q.pc = "get_id_email"
        /\ IF verified.out = NoOutcome
              THEN /\ reqs' = [reqs EXCEPT ![r] =
                        [q EXCEPT !.pc = "oauth_callback",
                                  !.verify = verified.exc, !.verified_at = now,
                                  !.replay = (q.state \in accepted),
                                  !.new_oauth_account = account,
                                  !.calls = Append(@, "oauth_callback"),
                                  !.resolver_arg = account]]
                   /\ accepted' = accepted \cup {q.state}
              ELSE /\ reqs' = [reqs EXCEPT ![r] =
                        [q EXCEPT !.pc = "done",
                                  !.verify = verified.exc, !.verified_at = now,
                                  !.outcome = verified.out]]
                   /\ UNCHANGED accepted
        /\ UNCHANGED <<initial_redirect_url, initial_follow_redirect, now, issued, codec>>

\* Mutant: the resolver's failure is caught and answered as a bad request.
OAuthCallbackRaise_wrapped(r) ==
    LET q == reqs[r]
    IN  /\ q.kind = "callback" /\ q.pc = "oauth_callback"
        /\ reqs' = [reqs EXCEPT ![r] =
              [q EXCEPT !.pc = "done", !.raised_by = "oauth_callback",
                        !.outcome = HTTPException(HTTP_400_BAD_REQUEST, None)]]
        /\ UNCHANGED <<initial_redirect_url, initial_follow_redirect, now, issued,
                       accepted, codec>>

\* user_manager.oauth_callback raises; nothing in callback catches it.
OAuthCallbackRaise(r) ==
    LET q == reqs[r]
    IN  /\ q.kind = "callback" /\ q.pc = "oauth_callback"
        /\ reqs' = [reqs EXCEPT ![r] =
              [q EXCEPT !.pc = "done", !.raised_by = "oauth_callback",
                        !.outcome = Raised("ResolverError")]]
        /\ UNCHANGED <<initial_redirect_url, initial_follow_redirect, now, issued,
                       accepted, codec>>

\* Lines 140-149: the resolver returns a user; the gate; backend.login is
\* awaited.
OAuthCallbackReturn(r, user) ==
    LET q   == reqs[r]
        out == callback_gate(user)
    IN  /\ q.kind = "callback" /\ q.pc = "oauth_callback"
        /\ IF out = NoOutcome
              THEN reqs' = [reqs EXCEPT ![r] =
                        [q EXCEPT !.pc = "login", !.user = user,
                                  !.calls = Append(@, "login"),
                                  !.login_arg = user]]
              ELSE reqs' = [reqs EXCEPT ![r] =
                        [q EXCEPT !.pc = "done", !.user = user, !.outcome = out]]
        /\ UNCHANGED <<initial_redirect_url, initial_follow_redirect, now, issued,
                       accepted, codec>>

\* Mutant: backend.login's value is dropped and the handler answers itself.
LoginReturn_discarded(r) ==
    LET q == reqs[r]
    IN  /\ q.kind = "callback" /\ q.pc = "login"
        /\ reqs' = [reqs EXCEPT ![r] =
              [q EXCEPT !.pc = "done", !.outcome = RedirectResponse("/")]]
        /\ UNCHANGED <<initial_redirect_url, initial_follow_redirect, now, issued,
                       accepted, codec>>

\* Line 149: backend.login returns; its value is the response.
LoginReturn(r) ==
    LET q == reqs[r]
    IN  /\ q.kind = "callback" /\ q.pc = "login"
        /\ reqs' = [reqs EXCEPT ![r] =
              [q EXCEPT !.pc = "done", !.outcome = LoginResponse(q.login_arg)]]
        /\ UNCHANGED <<initial_redirect_url, initial_follow_redirect, now, issued,
                       accepted, codec>>

\* backend.login raises; nothing in callback catches it.
LoginRaise(r) ==
    LET q == reqs[r]
    IN  /\ q.kind = "callback" /\ q.pc = "login"
        /\ reqs' = [reqs EXCEPT ![r] =
              [q EXCEPT !.pc = "done", !.raised_by = "login",
                        !.outcome = Raised("BackendError")]]
        /\ UNCHANGED <<initial_redirect_url, initial_follow_redirect, now, issued,
                       accepted, codec>>

(***************************************************************************)
(* The environment.                                                        *)
(***************************************************************************)
\* The response is sent; the request and its locals are gone.
Respond(r) ==
    /\ reqs[r].pc = "done"
    /\ reqs' = [reqs EXCEPT ![r] = Idle]
    /\ UNCHANGED <<initial_redirect_url, initial_follow_redirect, now, issued,
                   accepted, codec>>

Tick ==
    /\ now < MaxTime
    /\ now' = now + 1
    /\ UNCHANGED <<initial_redirect_url, initial_follow_redirect, issued, accepted,
                   reqs, codec>>

(***************************************************************************)
(* The codec on its own: tests/test_jwt.py issues with generate_jwt and    *)
(* decodes with decode_jwt; the router issues with generate_state_token.   *)
(***************************************************************************)
MaxLifetime == 2

Audiences == {STATE_TOKEN_AUDIENCE, OTHER_AUDIENCE, "TEST_AUDIENCE"}

\* The custom fields of a payload: every mapping of some of the keys.
CustomKeys == {"foo", "sub"}
CustomValues == {"bar", "baz"}
CustomData == UNION { [ks -> CustomValues] : ks \in SUBSET CustomKeys }

\* A mapping with an aud entry added, or left as it is.
WithAud(d, a) == IF a = None THEN d ELSE DictSet(d, "aud", a)

Custom(fields) == [k \in (DOMAIN fields) \ {"aud"} |-> fields[k]]

NoResult == [exc |-> "none", fields |-> EmptyDict, exp |-> NoExp]

CodecIdle ==
    [phase |-> "idle", via |-> None, input |-> EmptyDict, data |-> EmptyDict,
     lifetime |-> 0, issued_at |-> 0, token |-> NoToken,
     audience |-> None, decoded_at |-> 0, result |-> NoResult]

\* test_jwt.py:9-12: data = {..., "aud": audience}; generate_jwt(data, secret, lifetime).
CodecGenerateJwt(d, a, lifetime) ==
    LET data == WithAud(d, a)
    IN  /\ codec.phase = "idle"
        /\ codec' = [CodecIdle EXCEPT !.phase = "issued", !.via = "generate_jwt",
                         !.input = data, !.data = data,
                         !.lifetime = lifetime, !.issued_at = now,
                         !.token = generate_jwt(data, state_secret, lifetime, now)]
        /\ UNCHANGED <<initial_redirect_url, initial_follow_redirect, now, issued,
                       accepted, reqs>>

\* oauth.py:22-26 called with a caller's mapping.
CodecGenerateStateToken(d, a, lifetime) ==
    LET data   == WithAud(d, a)
        minted == generate_state_token(data, state_secret, lifetime, now)
    IN  /\ codec.phase = "idle"
        /\ codec' = [CodecIdle EXCEPT !.phase = "issued", !.via = "generate_state_token",
                         !.input = data, !.data = minted.data,
                         !.lifetime = lifetime, !.issued_at = now,
                         !.token = minted.token]
        /\ UNCHANGED <<initial_redirect_url, initial_follow_redirect, now, issued,
                       accepted, reqs>>

\* test_jwt.py:13: decode_jwt(jwt, secret, [audience]).
CodecDecodeJwt(audience, edge) ==
    /\ codec.phase = "issued"
    /\ codec' = [codec EXCEPT !.phase = "decoded", !.audience = audience,
                     !.decoded_at = now,
                     !.result = decode_jwt(codec.token, state_secret, {audience}, now, edge)]
    /\ UNCHANGED <<initial_redirect_url, initial_follow_redirect, now, issued,
                   accepted, reqs>>

CodecReset ==
    /\ codec.phase = "decoded"
    /\ codec' = CodecIdle
    /\ UNCHANGED <<initial_redirect_url, initial_follow_redirect, now, issued,
                   accepted, reqs>>

Init ==
    /\ initial_redirect_url = None
    /\ initial_follow_redirect = FALSE
    /\ now = 0
    /\ issued = {}
    /\ accepted = {}
    /\ reqs = [r \in Reqs |-> Idle]
    /\ codec = CodecIdle

\* The callback handler's steps after its first await.
CallbackSteps ==
    \/ \E r \in Reqs : GetIdEmailRaise(r)
    \/ \E r \in Reqs, edge \in BOOLEAN : GetIdEmailReturn(r, edge)
    \/ \E r \in Reqs : OAuthCallbackRaise(r)
    \/ \E r \in Reqs, user \in Users : OAuthCallbackReturn(r, user)
    \/ \E r \in Reqs : LoginReturn(r)
    \/ \E r \in Reqs : LoginRaise(r)

\* Callbacks arriving under one base URL, with every state string.
CallbackNext ==
    \/ \E r \in Reqs, token \in ProviderTokens, state \in StateInputs :
            CallbackBegin(r, "http://host-a", token, state)
    \/ CallbackSteps

\* The flow: authorize requests with no parameters, callbacks, the clock.
Next ==
    \/ \E r \in Reqs : AuthorizeBegin(r, "http://host-a", None, FALSE, <<>>, None, None)
    \/ \E r \in Reqs : GetAuthorizationUrlReturn(r)
    \/ \E r \in Reqs : GetAuthorizationUrlRaise(r)
    \/ CallbackNext
    \/ \E r \in Reqs : Respond(r)
    \/ Tick

Spec == Init /\ [][Next]_vars

\* The authorize handler under every configuration and every parameter.
InitAuthorize ==
    /\ initial_redirect_url \in InitialRedirectUrls
    /\ initial_follow_redirect \in BOOLEAN
    /\ now = 0
    /\ issued = {}
    /\ accepted = {}
    /\ reqs = [r \in Reqs |-> Idle]
    /\ codec = CodecIdle

NextAuthorize ==
    \/ \E r \in Reqs, base_url \in BaseUrls, redirect_url \in RedirectUrls,
          follow_redirect \in BOOLEAN, scopes \in ScopeLists,
          code_challenge \in CodeChallenges,
          code_challenge_method \in CodeChallengeMethods :
            AuthorizeBegin(r, base_url, redirect_url, follow_redirect, scopes,
                           code_challenge, code_challenge_method)
    \/ \E r \in Reqs : GetAuthorizationUrlReturn(r)
    \/ \E r \in Reqs : GetAuthorizationUrlRaise(r)
    \/ \E r \in Reqs : Respond(r)

SpecAuthorize == InitAuthorize /\ [][NextAuthorize]_vars

\* The round trip of the redirect URL: authorize and callback requests under
\* every configuration, each arriving under either base URL, the callback
\* carrying the state an authorize request issued.
NextRedirect ==
    \/ \E r \in Reqs, base_url \in BaseUrls, redirect_url \in RedirectUrls :
            AuthorizeBegin(r, base_url, redirect_url, FALSE, <<>>, None, None)
    \/ \E r \in Reqs : GetAuthorizationUrlReturn(r)
    \/ \E r \in Reqs, base_url \in BaseUrls, token \in ProviderTokens, state \in issued :
            CallbackBegin(r, base_url, token, state)
    \/ CallbackSteps
    \/ \E r \in Reqs : Respond(r)

SpecRedirect == InitAuthorize /\ [][NextRedirect]_vars

\* The codec on every payload, audience and lifetime, as the clock runs.
NextCodec ==
    \/ \E d \in CustomData, a \in Audiences \cup {None}, lifetime \in 1..MaxLifetime :
            CodecGenerateJwt(d, a, lifetime)
    \/ \E d \in CustomData, a \in Audiences \cup {None}, lifetime \in 1..MaxLifetime :
            CodecGenerateStateToken(d, a, lifetime)
    \/ \E audience \in Audiences, edge \in BOOLEAN : CodecDecodeJwt(audience, edge)
    \/ CodecReset
    \/ Tick

SpecCodec == Init /\ [][NextCodec]_vars

(***************************************************************************)
(* The claims.                                                             *)
(***************************************************************************)
Called(q, fn) == \E i \in 1..Len(q.calls) : q.calls[i] = fn

Count(q, fn) == Cardinality({i \in 1..Len(q.calls) : q.calls[i] = fn})

Callbacks == {r \in Reqs : reqs[r].kind = "callback"}

Authorizes == {r \in Reqs : reqs[r].kind = "authorize"}

\* The state was decoded and decode_jwt raised.
VerifyFailed(q) == q.verify \notin {"none", "ok"}

\* C1: a callback whose state token fails verification, whatever the cause,
\* has ended, and has called neither user_manager.oauth_callback nor
\* backend.login; no callback calls the resolver unless its state token
\* verified.
C1_StateBeforeMutation ==
    \A r \in Callbacks :
        LET q == reqs[r]
        IN  /\ VerifyFailed(q) =>
                /\ q.pc = "done"
                /\ q.outcome.kind \in {"HTTPException", "exception"}
                /\ ~Called(q, "oauth_callback") /\ q.resolver_arg = NoAccount
                /\ ~Called(q, "login") /\ q.login_arg = NoUser
            /\ Called(q, "oauth_callback") => q.verify = "ok"

C1_Witness ==
    \E r \in Callbacks :
        /\ reqs[r].pc = "done"
        /\ reqs[r].verify = "InvalidSignatureError"
        /\ reqs[r].calls = <<"get_id_email">>

\* C2: a callback whose resolver returned a user with is_active = FALSE has
\* ended with HTTPException(400, LOGIN_BAD_CREDENTIALS) and never called
\* backend.login.
C2_InactiveGate ==
    \A r \in Callbacks :
        LET q == reqs[r]
        IN  (q.user # NoUser /\ ~q.user.is_active) =>
                /\ q.pc = "done"
                /\ q.outcome = HTTPException(HTTP_400_BAD_REQUEST, LOGIN_BAD_CREDENTIALS)
                /\ ~Called(q, "login") /\ q.login_arg = NoUser

C2_Witness ==
    \E r \in Callbacks :
        /\ reqs[r].pc = "done"
        /\ reqs[r].user = [id |-> "u2", is_active |-> FALSE]
        /\ reqs[r].resolver_arg # NoAccount

\* C3: every failed verification of the state token ends the callback with
\* the one outcome HTTPException(400) without detail.
C3_SingleFailureOutcome ==
    \A r \in Callbacks :
        VerifyFailed(reqs[r]) =>
            reqs[r].outcome = HTTPException(HTTP_400_BAD_REQUEST, None)

\* C4: a state token minted by authorize verifies in a callback that decodes
\* it before its expiry (issued_at + lifetime), and a callback that decodes
\* it after its expiry ends with HTTPException(400) without detail.
C4_ExpiryEnforcement ==
    \A r \in Callbacks :
        LET q == reqs[r]
        IN  (q.state \in issued /\ q.verify # "none") =>
                /\ q.verified_at < q.state.exp => q.verify = "ok"
                /\ q.verified_at > q.state.exp =>
                        q.outcome = HTTPException(HTTP_400_BAD_REQUEST, None)

\* C5 as claimed: no callback passes state verification with a state string
\* that an earlier callback had already accepted.
C5_ConsumedOnce ==
    \A r \in Callbacks : ~(reqs[r].verify = "ok" /\ reqs[r].replay)

\* C5 as amended: every state string a callback accepts was minted by an
\* authorize request, and a callback presenting a state string that an
\* earlier callback had already accepted passes verification again (it goes
\* on to the resolver) whenever it decodes it before the token's expiry.
C5_AcceptedAgainUntilExpiry ==
    /\ accepted \subseteq issued
    /\ \A r \in Callbacks :
        LET q == reqs[r]
        IN  (q.verify # "none" /\ q.state \in accepted /\ q.verified_at < q.state.exp) =>
                /\ q.verify = "ok"
                /\ Called(q, "oauth_callback")

C5_Witness ==
    \E r \in Callbacks :
        /\ reqs[r].replay
        /\ reqs[r].verify = "ok"
        /\ Called(reqs[r], "oauth_callback")

\* C6: the redirect target authorize hands to get_authorization_url is the
\* request's redirect_url when present, else the configured
\* initial_redirect_url when present, else the URL of the callback route.
C6_RedirectPrecedence ==
    \A r \in Authorizes :
        LET q == reqs[r]
        IN  /\ Called(q, "get_authorization_url")
            /\ q.redirect_url # None => q.call.redirect_uri = q.redirect_url
            /\ (q.redirect_url = None /\ initial_redirect_url # None) =>
                    q.call.redirect_uri = initial_redirect_url
            /\ (q.redirect_url = None /\ initial_redirect_url = None) =>
                    q.call.redirect_uri = url_for(q.base_url, callback_route_name)

C6_Witness ==
    \E r \in Authorizes :
        /\ reqs[r].redirect_url # None
        /\ initial_redirect_url # None
        /\ reqs[r].redirect_url # initial_redirect_url
        /\ reqs[r].call.redirect_uri = reqs[r].redirect_url

\* C7: an authorize request the provider client answered responds with a
\* redirect exactly when follow_redirect or initial_follow_redirect is true,
\* and with the authorization_url payload otherwise; either carries the URL
\* the provider client returned for this request's call.
C7_ResponseShape ==
    \A r \in Authorizes :
        LET q == reqs[r]
        IN  (q.pc = "done" /\ q.outcome.kind # "exception") =>
                /\ q.outcome.kind \in {"RedirectResponse", "OAuth2AuthorizeResponse"}
                /\ q.outcome.kind = "RedirectResponse" <=>
                        (q.follow_redirect \/ initial_follow_redirect)
                /\ q.outcome.url = get_authorization_url(q.call)
                /\ q.outcome.url.params.state = q.state

C7_Witness ==
    \E r \in Authorizes :
        /\ reqs[r].pc = "done"
        /\ ~reqs[r].follow_redirect
        /\ initial_follow_redirect
        /\ reqs[r].outcome.kind = "RedirectResponse"

\* C8: a token issued from custom fields d with audience a (by generate_jwt
\* on d plus aud = a, or by generate_state_token on d, whose audience is the
\* state-token audience) and decoded before its expiry with the same secret
\* and expected audience a yields the custom fields d and the audience a.
IssuedAudience ==
    IF codec.via = "generate_state_token" THEN STATE_TOKEN_AUDIENCE
    ELSE DictGet(codec.input, "aud")

AudOf(state) == DictGet(Parse(state.text), "aud")

\* C9: a callback presented with a token signed with the service's secret
\* whose audience is not the state-token audience never accepts it: decode_jwt
\* raises, the resolver is not called, and the token is not among those
\* accepted.
C9_AudienceIsolation ==
    /\ \A r \in Callbacks :
        LET q == reqs[r]
        IN  (/\ q.verify # "none"
             /\ q.state.wellformed
             /\ q.state.sig.key = state_secret
             /\ AudOf(q.state) # STATE_TOKEN_AUDIENCE) =>
                /\ VerifyFailed(q)
                /\ ~Called(q, "oauth_callback")
                /\ ~Called(q, "login")
    /\ \A t \in accepted : AudOf(t) = STATE_TOKEN_AUDIENCE

C9_Witness ==
    \E r \in Callbacks :
        /\ reqs[r].pc = "done"
        /\ reqs[r].state \in OtherTokens
        /\ AudOf(reqs[r].state) = OTHER_AUDIENCE
        /\ reqs[r].verify = "InvalidAudienceError"

\* C10: every state token authorize mints decodes, before expiry, to no
\* custom fields and the state-token audience; and a callback that presents
\* it, decodes it before expiry and gets an active user from the resolver
\* calls backend.login exactly once, with that user, and responds with what
\* login returned for that user.
C10_EndToEnd ==
    /\ \A t \in issued :
        LET decoded == decode_jwt(t, state_secret, {STATE_TOKEN_AUDIENCE},
                                  t.exp - TOKEN_LIFETIME, FALSE)
        IN  /\ decoded.exc = "ok"
            /\ Custom(decoded.fields) = EmptyDict
            /\ decoded.fields["aud"] = STATE_TOKEN_AUDIENCE
    /\ \A r \in Authorizes : reqs[r].state \in issued
    /\ \A r \in Callbacks :
        LET q == reqs[r]
        IN  (/\ q.state \in issued
             /\ q.verify # "none" /\ q.verified_at < q.state.exp
             /\ q.user # NoUser /\ q.user.is_active) =>
                /\ Count(q, "login") = 1
                /\ q.login_arg = q.user
                /\ (q.pc = "done" /\ q.outcome.kind # "exception") =>
                        q.outcome = LoginResponse(q.user)

C10_Witness ==
    \E r \in Callbacks :
        /\ reqs[r].state \in issued
        /\ reqs[r].pc = "done"
        /\ reqs[r].outcome = LoginResponse([id |-> "u1", is_active |-> TRUE])
        /\ reqs[r].calls = <<"get_id_email", "oauth_callback", "login">>

FailureOf(fn) ==
    IF fn = "oauth_callback" THEN "ResolverError"
    ELSE IF fn = "login" THEN "BackendError"
    ELSE "ProviderError"

\* C12: a callback in which get_id_email, user_manager.oauth_callback or
\* backend.login raised has ended with that very exception; the failing call
\* is the last call the request made, so no later step ran, and every
\* collaborator was called at most once.
C12_UpstreamFailuresPropagate ==
    \A r \in Callbacks :
        LET q == reqs[r]
        IN  /\ \A fn \in {"get_id_email", "oauth_callback", "login"} : Count(q, fn) <= 1
            /\ q.raised_by # None =>
                /\ q.pc = "done"
                /\ q.outcome = Raised(FailureOf(q.raised_by))
                /\ q.calls[Len(q.calls)] = q.raised_by
                /\ q.raised_by = "oauth_callback" => ~Called(q, "login")
                /\ q.raised_by = "get_id_email" =>
                        (q.verify = "none" /\ ~Called(q, "oauth_callback"))

C12_Witness ==
    \E r \in Callbacks :
        /\ reqs[r].raised_by = "oauth_callback"
        /\ reqs[r].outcome = Raised("ResolverError")
        /\ reqs[r].calls = <<"get_id_email", "oauth_callback">>

\* C13: a callback that has called backend.login called it once, as its
\* third call after get_id_email and user_manager.oauth_callback, with its
\* state verified, and passed it the user the resolver returned to this
\* request, whose is_active is true; when login has returned, the request's
\* response is login's return value.
C13_LoginLast ==
    \A r \in Callbacks :
        LET q == reqs[r]
        IN  /\ Called(q, "login") =>
                /\ q.calls = <<"get_id_email", "oauth_callback", "login">>
                /\ q.verify = "ok"
                /\ q.user # NoUser /\ q.user.is_active
                /\ q.login_arg = q.user
                /\ q.pc \in {"login", "done"}
            /\ ~Called(q, "login") => q.login_arg = NoUser
            /\ (Called(q, "login") /\ q.pc = "done" /\ q.raised_by = None) =>
                    q.outcome = LoginResponse(q.user)
            /\ q.outcome.kind = "login_response" => Called(q, "login")

C13_Witness ==
    \E r \in Callbacks :
        /\ reqs[r].pc = "done"
        /\ reqs[r].calls = <<"get_id_email", "oauth_callback", "login">>
        /\ reqs[r].outcome = LoginResponse(reqs[r].user)

\* C14: every token generate_state_token mints carries the state-token
\* audience, whatever aud the caller's mapping held; decoded before its expiry
\* it verifies against the state-token audience and against no other.
C14_AudienceOverwritten ==
    (codec.via = "generate_state_token" /\ codec.phase # "idle") =>
        /\ AudOf(codec.token) = STATE_TOKEN_AUDIENCE
        /\ (/\ codec.phase = "decoded"
            /\ codec.decoded_at < codec.issued_at + codec.lifetime) =>
                (codec.result.exc = "ok" <=> codec.audience = STATE_TOKEN_AUDIENCE)

C14_Witness ==
    /\ codec.via = "generate_state_token"
    /\ codec.phase = "decoded"
    /\ DictGet(codec.input, "aud") = OTHER_AUDIENCE
    /\ codec.audience = STATE_TOKEN_AUDIENCE
    /\ codec.result.exc = "ok"

\* C15: after generate_state_token returns, the caller's mapping holds what
\* it held before the call.
C15_CallerDataUntouched ==
    (codec.via = "generate_state_token" /\ codec.phase # "idle") =>
        codec.data = codec.input

\* C17: the extras an authorize request hands to get_authorization_url hold
\* code_challenge (respectively code_challenge_method) exactly when the
\* request supplied it.
C17_PkceOmittedWhenAbsent ==
    \A r \in Authorizes :
        LET q == reqs[r]
        IN  /\ "code_challenge" \in DOMAIN q.call.extras_params
                    <=> q.code_challenge # None
            /\ "code_challenge_method" \in DOMAIN q.call.extras_params
                    <=> q.code_challenge_method # None

\* The authorize requests that carried no redirect_url of their own.
DefaultAuthorizes == {r \in Authorizes : reqs[r].redirect_url = None}

\* C19 as stated: whatever request the callback arrives as, the redirect URL
\* the adapter exchanges the code with is the one an authorize request
\* without redirect_url handed to the provider.
C19_AdapterUrlFixed ==
    \A a \in DefaultAuthorizes, c \in Callbacks :
        reqs[a].call.redirect_uri = reqs[c].exchange_redirect_url

\* C19, amended: the adapter's redirect URL is decided by the configuration
\* and, only when no initial_redirect_url is configured, by the base URL of
\* the callback request, under which the callback route is resolved; it
\* equals the target an authorize request without redirect_url handed to
\* the provider when initial_redirect_url is configured or both requests
\* arrived under the same base URL, and differs otherwise.
C19_AdapterUrlMatchesAuthorize ==
    /\ \A c \in Callbacks :
        reqs[c].exchange_redirect_url =
            IF initial_redirect_url # None THEN initial_redirect_url
            ELSE url_for(reqs[c].base_url, callback_route_name)
    /\ \A a \in DefaultAuthorizes, c \in Callbacks :
        (reqs[a].call.redirect_uri = reqs[c].exchange_redirect_url)
            <=> (initial_redirect_url # None \/ reqs[a].base_url = reqs[c].base_url)

C19_Witness ==
    \E a \in DefaultAuthorizes, c \in Callbacks :
        /\ initial_redirect_url = None
        /\ reqs[a].base_url = reqs[c].base_url
        /\ reqs[a].state = reqs[c].state
        /\ reqs[a].call.redirect_uri = reqs[c].exchange_redirect_url

\* C18: every callback request calls get_id_email first and exactly once,
\* whatever its state string: while the lookup is pending the state has not
\* been decoded, and a request whose state failed verification has made the
\* lookup and no other call.
C18_LookupBeforeVerification ==
    \A r \in Callbacks :
        LET q == reqs[r]
        IN  /\ Len(q.calls) >= 1 /\ q.calls[1] = "get_id_email"
            /\ Count(q, "get_id_email") = 1
            /\ q.pc = "get_id_email" => q.verify = "none"
            /\ VerifyFailed(q) => q.calls = <<"get_id_email">>
            /\ (Called(q, "oauth_callback") \/ Called(q, "login")) => q.verify = "ok"

C18_Witness ==
    \E r \in Callbacks :
        /\ VerifyFailed(reqs[r])
        /\ reqs[r].pc = "done"
        /\ reqs[r].calls = <<"get_id_email">>
        /\ reqs[r].outcome = HTTPException(HTTP_400_BAD_REQUEST, None)

\* What a callback's own parameters and its collaborators' answers to it
\* decide its response to be.
OwnOutcome(q) ==
    IF q.raised_by # None THEN Raised(FailureOf(q.raised_by))
    ELSE IF VerifyFailed(q)
        THEN IF IsDecodeError(q.verify) THEN HTTPException(HTTP_400_BAD_REQUEST, None)
             ELSE Raised(q.verify)
    ELSE IF ~q.user.is_active
        THEN HTTPException(HTTP_400_BAD_REQUEST, LOGIN_BAD_CREDENTIALS)
    ELSE LoginResponse(q.user)

\* A callback in flight beside other requests holds what it would hold alone.
CallbackIsolated(q) ==
    /\ q.verify # "none" =>
            \E edge \in BOOLEAN :
                decode_jwt(q.state, state_secret, {STATE_TOKEN_AUDIENCE},
                           q.verified_at, edge).exc = q.verify
    /\ q.resolver_arg # NoAccount =>
            /\ q.resolver_arg.access_token = q.token["access_token"]
            /\ q.resolver_arg.expires_at = DictGet(q.token, "expires_at")
            /\ q.resolver_arg.refresh_token = DictGet(q.token, "refresh_token")
            /\ q.resolver_arg.account_id = get_id_email(q.token["access_token"])[1]
            /\ q.resolver_arg.account_email = get_id_email(q.token["access_token"])[2]
    /\ q.login_arg # NoUser => q.login_arg = q.user
    /\ q.pc = "done" => q.outcome = OwnOutcome(q)

\* An authorize in flight beside other requests holds what it would hold alone.
AuthorizeIsolated(q) ==
    /\ q.call.redirect_uri =
            authorize_redirect_url(q.redirect_url, initial_redirect_url, q.base_url)
    /\ q.call.scope = q.scopes
    /\ q.call.state = q.state
    /\ q.state_data = ("aud" :> STATE_TOKEN_AUDIENCE)
    /\ (q.pc = "done" /\ q.raised_by = None) =>
            q.outcome = authorize_response(q.follow_redirect, initial_follow_redirect,
                                           get_authorization_url(q.call))
    /\ (q.pc = "done" /\ q.raised_by # None) => q.outcome = Raised(FailureOf(q.raised_by))

\* A step is taken by one request and writes that request's locals only.
OneRequestPerStep ==
    \A r1, r2 \in Reqs :
        (reqs'[r1] # reqs[r1] /\ reqs'[r2] # reqs[r2]) => r1 = r2

ConfigurationUnchanged ==
    /\ initial_redirect_url' = initial_redirect_url
    /\ initial_follow_redirect' = initial_follow_redirect

\* C16: under every interleaving of the suspension points of the requests in
\* flight, each request's outcome and the account record and user it passes
\* to the resolver and to login are decided by its own parameters and its
\* collaborators' answers to it; no step writes another request's locals,
\* and the configuration is never written.
C16_NoSharedMutableState ==
    /\ [](\A r \in Reqs :
            /\ reqs[r].kind = "callback" => CallbackIsolated(reqs[r])
            /\ reqs[r].kind = "authorize" => AuthorizeIsolated(reqs[r]))
    /\ [][OneRequestPerStep]_vars
    /\ [][ConfigurationUnchanged]_vars

\* Two callbacks past the resolver at once, each with its own token.
C16_Witness ==
    \E r1 \in Callbacks, r2 \in Callbacks :
        /\ reqs[r1].token # reqs[r2].token
        /\ reqs[r1].pc = "login" /\ reqs[r1].login_arg.id = "u1"
        /\ reqs[r2].pc = "oauth_callback"
        /\ reqs[r1].resolver_arg.access_token = "at1"
        /\ reqs[r2].resolver_arg.access_token = "at2"

====
